---- MODULE Spec2Model ----
(***************************************************************************)
(* Model of notion_script.py: the math segmenter                           *)
(* (build_rich_text_from_text_with_math), the remote node client           *)
(* (fetch_block_children, update_block_rich_text) and the tree walker      *)
(* (walk_and_fix).                                                         *)
(*                                                                         *)
(* A Python str is a sequence of one-character strings.  Positions follow  *)
(* Python: a match span (start, end) is 0-based with end exclusive, so the *)
(* slice text[a:b] is SubSeq(text, a + 1, b).                              *)
(***************************************************************************)
EXTENDS Integers, Sequences, FiniteSets, TLC

\* ---------------------------------------------------------------- bounds
MaxLen == 6        \* longest input string given to the segmenter
MaxNodes == 3      \* nodes below the root in the walked tree
MaxPages == 3      \* pages a children listing is split in (fetch alone)
MaxRequests == 4   \* cap on the GET requests of one fetch_block_children call

None == "None"

\* ------------------------------------------------------------ characters
\* "ge" stands for the single character U+2265 (greater-than or equal to).
Chars == {"$", " ", "x", "ge"}

Whitespace == {" "}

RECURSIVE StringsOfLen(_)
StringsOfLen(n) ==
  IF n = 0 THEN {<<>>}
  ELSE {Append(s, c) : s \in StringsOfLen(n - 1), c \in Chars}

Strings == UNION {StringsOfLen(n) : n \in 0..MaxLen}

\* text[a:b] of Python, for 0 <= a <= b <= len(text)
Slice(s, a, b) == SubSeq(s, a + 1, b)

\* ------------------------------------------------ UNICODE_TO_LATEX table
\* The entry of U+2265; the other entries are of the same form (one
\* character to a backslash command).
UNICODE_TO_LATEX == << [u |-> "ge", latex |-> <<"\\", "g", "e", "q">>] >>

\* str.replace(u, latex) for a one-character u, from the i-th character on
RECURSIVE replace_from(_, _, _, _)
replace_from(expr, u, latex, i) ==
  IF i > Len(expr) THEN <<>>
  ELSE (IF expr[i] = u THEN latex ELSE <<expr[i]>>)
       \o replace_from(expr, u, latex, i + 1)

replace(expr, u, latex) == replace_from(expr, u, latex, 1)

\* the for loop over the table, from its k-th entry on
RECURSIVE normalize_from(_, _)
normalize_from(expr, k) ==
  IF k > Len(UNICODE_TO_LATEX) THEN expr
  ELSE normalize_from(
         replace(expr, UNICODE_TO_LATEX[k].u, UNICODE_TO_LATEX[k].latex), k + 1)

normalize_latex(expr) == normalize_from(expr, 1)

\* str.strip(): leading and trailing whitespace removed
RECURSIVE FirstKept(_, _)
FirstKept(s, i) ==
  IF i <= Len(s) /\ s[i] \in Whitespace THEN FirstKept(s, i + 1) ELSE i

RECURSIVE LastKept(_, _)
LastKept(s, i) ==
  IF i >= 1 /\ s[i] \in Whitespace THEN LastKept(s, i - 1) ELSE i

strip(s) == SubSeq(s, FirstKept(s, 1), LastKept(s, Len(s)))

\* ------------------------------------------ MATH_PATTERN = \$(.+?)\$ DOTALL
\* 1-based position of the first "$" at or after 1-based position p, 0 if none
RECURSIVE NextDollar(_, _)
NextDollar(s, p) ==
  IF p > Len(s) THEN 0
  ELSE IF s[p] = "$" THEN p ELSE NextDollar(s, p + 1)

NoMatch == [start |-> -1, end |-> -1]

\* MATH_PATTERN.search(s, pos): the leftmost match at or after 0-based pos.
\* The opening "$" is followed by at least one character of any kind (".+?"
\* under DOTALL, a "$" included), then by the nearest later "$".
RECURSIVE MATH_PATTERN_search(_, _)
MATH_PATTERN_search(s, pos) ==
  LET a == NextDollar(s, pos + 1) IN
  IF a = 0 THEN NoMatch
  ELSE LET e == NextDollar(s, a + 2) IN
       IF e = 0 THEN MATH_PATTERN_search(s, a)
       ELSE [start |-> a - 1, end |-> e]

\* MATH_PATTERN.finditer(s): the non-overlapping matches, left to right
RECURSIVE finditer_from(_, _)
finditer_from(s, pos) ==
  LET m == MATH_PATTERN_search(s, pos) IN
  IF m = NoMatch THEN <<>>
  ELSE <<m>> \o finditer_from(s, m.end)

MATH_PATTERN_finditer(s) == finditer_from(s, 0)

\* m.group(1)
group1(s, m) == Slice(s, m.start + 1, m.end - 1)

\* "$" in s and MATH_PATTERN.search(s)
HasMath(s) ==
  (\E i \in 1..Len(s) : s[i] = "$") /\ MATH_PATTERN_search(s, 0) # NoMatch

\* ------------------------------------------------------ rich_text items
TextItem(content) == [type |-> "text", content |-> content]
EquationItem(expr) == [type |-> "equation", expression |-> expr]

\* --------------------------- build_rich_text_from_text_with_math (137-178)
\* the for loop over the matches ms, from the k-th match on: the state is
\* (rich, idx)
RECURSIVE build_loop(_, _, _, _, _)
build_loop(text_, ms, k, idx, rich_) ==
  IF k > Len(ms) THEN [rich |-> rich_, idx |-> idx]
  ELSE
    LET m == ms[k]
        leading == Slice(text_, idx, m.start)
        rich1 == IF m.start > idx /\ leading # <<>>
                 THEN Append(rich_, TextItem(leading)) ELSE rich_
        expr == normalize_latex(strip(group1(text_, m)))
    IN build_loop(text_, ms, k + 1, m.end, Append(rich1, EquationItem(expr)))

\* the same with the trailing test off by one: a trailing text of one
\* character is dropped
build_rich_text_trailing_off_by_one(text_) ==
  LET r == build_loop(text_, MATH_PATTERN_finditer(text_), 1, 0, <<>>)
      trailing == Slice(text_, r.idx, Len(text_))
      rich2 == IF r.idx + 1 < Len(text_) /\ trailing # <<>>
               THEN Append(r.rich, TextItem(trailing)) ELSE r.rich
  IN IF rich2 = <<>> THEN <<TextItem(text_)>> ELSE rich2

build_rich_text_from_text_with_math(text_) ==
  LET r == build_loop(text_, MATH_PATTERN_finditer(text_), 1, 0, <<>>)
      trailing == Slice(text_, r.idx, Len(text_))
      rich2 == IF r.idx < Len(text_) /\ trailing # <<>>
               THEN Append(r.rich, TextItem(trailing)) ELSE r.rich
  IN IF rich2 = <<>> THEN <<TextItem(text_)>> ELSE rich2


\* --------------------------------------------------------- block types
TEXTUAL_BLOCK_TYPES ==
  {"paragraph", "heading_1", "heading_2", "heading_3", "bulleted_list_item",
   "numbered_list_item", "to_do", "toggle", "quote", "callout"}

SKIP_BLOCK_TYPES ==
  {"equation", "code", "bookmark", "image", "video", "file", "pdf", "divider",
   "table", "table_row", "column_list", "column", "synced_block",
   "link_to_page", "child_database", "child_page", "breadcrumb",
   "table_of_contents"}

\* rich_text items as the API delivers them: a text item carries
\* text.content and plain_text (the same string), an equation item carries
\* plain_text and no text field.
ApiText(s) == [type |-> "text", content |-> s, plain_text |-> s]
ApiEquation(s) == [type |-> "equation", plain_text |-> s]

\* ------------------------------------------------- HTTP responses (PATCH)
\* status 0 stands for a transport failure: requests.patch raises
\* requests.ConnectionError instead of returning a response.
ConnectionFailed == 0
RATE_LIMITED == 429

Statuses == {200, 400, RATE_LIMITED, ConnectionFailed}

\* the Retry-After header: absent, integer seconds, or something else
RetryAfterValues == {None, "1", "2", "soon"}

Responses == [status : Statuses, retry_after : RetryAfterValues]

\* int(str): the integer a decimal string denotes, ValueError otherwise
IsIntLiteral(h) == h \in {"1", "2"}
int(h) == IF h = "1" THEN 1 ELSE 2

\* res.raise_for_status(): requests.HTTPError for a 4xx or 5xx status
raise_for_status(res) ==
  IF res.status >= 400 /\ res.status < 600 THEN "HTTPError" ELSE "ok"

\* one PATCH: the response, or the exception the transport raises
Patch(res) == IF res.status = ConnectionFailed THEN "ConnectionError" ELSE "ok"

\* ------------------------------------- update_block_rich_text (105-119)
\* r1, r2: what the server answers to the first and to the second PATCH.
\* requests: the payloads sent; sleeps: the time.sleep durations;
\* result: "ok" (res.json() returned) or the exception the call ends with.
\* the same, retrying after any failure status instead of 429 alone
update_retry_any_failure(block_id, block_type, rich_text, r1, r2) ==
  LET payload == [id |-> block_id, type |-> block_type, rich_text |-> rich_text]
  IN
  IF Patch(r1) # "ok"
  THEN [requests |-> <<payload>>, sleeps |-> <<>>, result |-> Patch(r1)]
  ELSE IF r1.status >= 400
  THEN LET h == IF r1.retry_after = None THEN "1" ELSE r1.retry_after IN
       IF ~IsIntLiteral(h)
       THEN [requests |-> <<payload>>, sleeps |-> <<>>, result |-> "ValueError"]
       ELSE IF Patch(r2) # "ok"
       THEN [requests |-> <<payload, payload>>, sleeps |-> <<int(h)>>,
             result |-> Patch(r2)]
       ELSE [requests |-> <<payload, payload>>, sleeps |-> <<int(h)>>,
             result |-> raise_for_status(r2)]
  ELSE [requests |-> <<payload>>, sleeps |-> <<>>,
        result |-> raise_for_status(r1)]

update_block_rich_text(block_id, block_type, rich_text, r1, r2) ==
  LET payload == [id |-> block_id, type |-> block_type, rich_text |-> rich_text]
  IN
  IF Patch(r1) # "ok"
  THEN [requests |-> <<payload>>, sleeps |-> <<>>, result |-> Patch(r1)]
  ELSE IF r1.status = RATE_LIMITED
  THEN LET h == IF r1.retry_after = None THEN "1" ELSE r1.retry_after IN
       IF ~IsIntLiteral(h)
       THEN [requests |-> <<payload>>, sleeps |-> <<>>, result |-> "ValueError"]
       ELSE IF Patch(r2) # "ok"
       THEN [requests |-> <<payload, payload>>, sleeps |-> <<int(h)>>,
             result |-> Patch(r2)]
       ELSE [requests |-> <<payload, payload>>, sleeps |-> <<int(h)>>,
             result |-> raise_for_status(r2)]
  ELSE [requests |-> <<payload>>, sleeps |-> <<>>,
        result |-> raise_for_status(r1)]

\* block_has_math_dollars without the test of the block type
block_has_math_any_type(block) ==
  \E k \in 1..Len(block.rich_text) :
    /\ block.rich_text[k].type = "text"
    /\ HasMath(block.rich_text[k].content)

\* ------------------------------------- block_has_math_dollars (121-135)
block_has_math_dollars(block) ==
  IF block.type \notin TEXTUAL_BLOCK_TYPES THEN FALSE
  ELSE \E k \in 1..Len(block.rich_text) :
         /\ block.rich_text[k].type = "text"
         /\ HasMath(block.rich_text[k].content)

\* "".join(item.get("plain_text", "") for item in old_rt)
RECURSIVE flatten(_)
flatten(rt) ==
  IF rt = <<>> THEN <<>> ELSE Head(rt).plain_text \o flatten(Tail(rt))

NoCall == [requests |-> <<>>, sleeps |-> <<>>, result |-> "none"]

\* ---------------------------------- rewrite_block_inline_math (180-201)
\* changed: the value returned (when the call returns); call: what the
\* update call did; raised: the exception the call ends with, None if none.
rewrite_block_inline_math(block, r1, r2) ==
  LET full_text == flatten(block.rich_text)
      changed == HasMath(full_text)
      new_rt == build_rich_text_from_text_with_math(full_text)
      call == IF changed
              THEN update_block_rich_text(block.id, block.type, new_rt, r1, r2)
              ELSE NoCall
  IN [changed |-> changed, call |-> call,
      raised |-> IF changed /\ call.result # "ok" THEN call.result ELSE None]


\* ================================================================ state
VARIABLES
  text, rich, spc,                      \* the segmenter's input, output, position
  resp1, resp2, upd, upc,               \* one update call: server answers, outcome
  pages, fblock, start_cursor, results, \* the server's listings; the running fetch
  reqlog, fpc,                          \* cursors sent by the running fetch; position
  blocks, stack, pc, ret,               \* the walk: node snapshots, call stack, result
  raised, fetched, updates, visited     \* escaping exception and the walk's trace

segVars == <<text, rich, spc>>
updVars == <<resp1, resp2, upd, upc>>
fetchVars == <<fblock, start_cursor, results, reqlog, fpc>>
walkVars == <<blocks, stack, pc, ret, raised, fetched, updates, visited>>
vars == <<segVars, updVars, pages, fetchVars, walkVars>>

SegOff == text = <<>> /\ rich = <<>> /\ spc = "off"
UpdOff ==
  /\ resp1 = [status |-> 200, retry_after |-> None]
  /\ resp2 = [status |-> 200, retry_after |-> None]
  /\ upd = NoCall /\ upc = "off"
FetchIdle ==
  /\ fblock = 0 /\ start_cursor = <<>> /\ results = <<>>
  /\ reqlog = <<>> /\ fpc = "idle"
WalkOff ==
  /\ blocks = <<>> /\ stack = <<>> /\ pc = "off" /\ ret = <<>>
  /\ raised = None /\ fetched = <<>> /\ updates = <<>> /\ visited = <<>>

\* ====================================================== the segmenter
InitSeg ==
  /\ text \in Strings /\ rich = <<>> /\ spc = "ready"
  /\ UpdOff /\ FetchIdle /\ WalkOff /\ pages = <<>>

\* build_rich_text_from_text_with_math(text)
Segment ==
  /\ spc = "ready"
  /\ rich' = build_rich_text_from_text_with_math(text)
  /\ spc' = "done"
  /\ UNCHANGED <<text, updVars, pages, fetchVars, walkVars>>

NextSeg == Segment
SpecSeg == InitSeg /\ [][NextSeg]_vars

\* ==================================================== one update call
SampleText == <<"x", " ", "$", "x", "$">>

InitUpdate ==
  /\ resp1 \in Responses /\ resp2 \in Responses
  /\ upd = NoCall /\ upc = "ready"
  /\ SegOff /\ FetchIdle /\ WalkOff /\ pages = <<>>

\* update_block_rich_text(1, "paragraph", new_rt)
CallUpdate ==
  /\ upc = "ready"
  /\ upd' = update_block_rich_text(
              1, "paragraph", build_rich_text_from_text_with_math(SampleText),
              resp1, resp2)
  /\ upc' = "done"
  /\ UNCHANGED <<resp1, resp2, segVars, pages, fetchVars, walkVars>>

NextUpdate == CallUpdate
SpecUpdate == InitUpdate /\ [][NextUpdate]_vars

\* ===================================== fetch_block_children (87-103)
\* A listing is the sequence of pages the server holds for a block; the
\* cursor of page p is the token <<p>>, NoCursor is Python's None, and a
\* request without cursor gets page 1.
NoCursor == <<>>
Cursor(p) == <<p>>

Page(res, more, cur) == [results |-> res, has_more |-> more, next_cursor |-> cur]

ServerPage(block_id, cursor) ==
  pages[block_id][IF cursor = NoCursor THEN 1 ELSE cursor[1]]

\* one pass of the while loop: GET, raise_for_status, extend, break or go on;
\* the break falls through to "return results"
InFetchLoop == fpc = "loop" /\ Len(reqlog) < MaxRequests

FetchPage ==
  /\ InFetchLoop
  /\ \E ok \in BOOLEAN :
       LET params == IF start_cursor # NoCursor THEN start_cursor ELSE NoCursor
           data == ServerPage(fblock, params)
       IN /\ reqlog' = Append(reqlog, params)
          /\ IF ~ok
             THEN fpc' = "raised" /\ UNCHANGED <<results, start_cursor>>
             ELSE /\ results' = results \o data.results
                  /\ IF ~data.has_more
                     THEN fpc' = "returned" /\ UNCHANGED start_cursor
                     ELSE fpc' = "loop" /\ start_cursor' = data.next_cursor
  /\ UNCHANGED <<fblock, pages, segVars, updVars, walkVars>>

\* the listings of a server for one block: up to MaxPages pages of one item
\* each; a page may signal more pages with or without a continuation cursor
PageChoices(p, n) ==
  {Page(<<p>>, FALSE, NoCursor), Page(<<p>>, TRUE, NoCursor)}
  \cup (IF p < n THEN {Page(<<p>>, TRUE, Cursor(p + 1))} ELSE {})

Listings ==
  UNION {{l \in [1..n -> UNION {PageChoices(p, n) : p \in 1..n}] :
            \A p \in 1..n : l[p] \in PageChoices(p, n)} : n \in 1..MaxPages}

InitFetch ==
  /\ \E l \in Listings : pages = [b \in {0} |-> l]
  /\ fblock = 0 /\ start_cursor = NoCursor /\ results = <<>>
  /\ reqlog = <<>> /\ fpc = "loop"
  /\ SegOff /\ UpdOff /\ WalkOff

NextFetch == FetchPage
SpecFetch == InitFetch /\ [][NextFetch]_vars


\* ========================================== walk_and_fix (203-238), main
\* The document tree: node n (1..MaxNodes) hangs below parent[n] < n, the
\* root being 0; children are listed by ascending id.
PageSize == 2

Parents == {par \in [1..MaxNodes -> 0..(MaxNodes - 1)] :
              \A n \in 1..MaxNodes : par[n] < n}

RECURSIVE ChildrenFrom(_, _, _)
ChildrenFrom(par, b, n) ==
  IF n > MaxNodes THEN <<>>
  ELSE (IF par[n] = b THEN <<n>> ELSE <<>>) \o ChildrenFrom(par, b, n + 1)

ChildrenOf(par, b) == ChildrenFrom(par, b, 1)

\* a conforming server: pages of PageSize items, has_more and next_cursor
\* set on every page but the last
RECURSIVE Paginate(_, _)
Paginate(items, p) ==
  IF Len(items) <= PageSize THEN <<Page(items, FALSE, NoCursor)>>
  ELSE <<Page(SubSeq(items, 1, PageSize), TRUE, Cursor(p + 1))>>
       \o Paginate(SubSeq(items, PageSize + 1, Len(items)), p + 1)

\* the type and rich_text a node may carry
PlainRT == <<ApiText(<<"x">>)>>
MathRT == <<ApiEquation(<<"x">>), ApiText(<<" ", "$", "ge", "$">>)>>
SplitRT == <<ApiText(<<"$", "x">>), ApiText(<<"x", "$">>)>>

SampleKinds ==
  { [type |-> "paragraph", rich_text |-> PlainRT],
    [type |-> "paragraph", rich_text |-> MathRT],
    [type |-> "toggle", rich_text |-> SplitRT],
    [type |-> "code", rich_text |-> MathRT],
    [type |-> "unsupported", rich_text |-> MathRT] }

Frame(block_id) ==
  [block_id |-> block_id, children |-> <<>>, i |-> 1, total_changed |-> 0,
   at |-> "call"]

Top == stack[Len(stack)]
SetTop(f) == [stack EXCEPT ![Len(stack)] = f]
Push(f, g) == Append(SetTop(f), g)

\* the snapshot of node n a children listing delivers: the server flags a
\* node as having children exactly when its own listing is not empty
Snapshot(n, kind) ==
  [id |-> n, type |-> kind.type,
   has_children |-> pages[n][1].results # <<>>,
   rich_text |-> kind.rich_text]

Range(f) == {f[k] : k \in DOMAIN f}

Init ==
  /\ \E par \in Parents :
       pages = [b \in 0..MaxNodes |-> Paginate(ChildrenOf(par, b), 1)]
  /\ blocks = <<>>
  /\ stack = <<Frame(0)>> /\ pc = "run" /\ ret = <<>> /\ raised = None
  /\ fetched = <<>> /\ updates = <<>> /\ visited = <<>>
  /\ FetchIdle /\ SegOff /\ UpdOff

\* line 208: children = fetch_block_children(block_id), the call
AtCall == pc = "run" /\ stack # <<>> /\ Top.at = "call" /\ fpc = "idle"

WalkCall ==
  /\ AtCall
  /\ fblock' = Top.block_id /\ start_cursor' = NoCursor /\ results' = <<>>
  /\ reqlog' = <<>> /\ fpc' = "loop"
  /\ fetched' = Append(fetched, Top.block_id)
  /\ stack' = SetTop([Top EXCEPT !.at = "fetch"])
  /\ UNCHANGED <<blocks, pc, ret, raised, updates, visited, pages, segVars, updVars>>

\* lines 208-209: the fetch returned; the content of the listed nodes is
\* what the server held for them (any of SampleKinds)
AtFetched == pc = "run" /\ stack # <<>> /\ Top.at = "fetch" /\ fpc = "returned"

WalkFetched ==
  /\ AtFetched
  /\ \E kind \in [Range(results) -> SampleKinds] :
       blocks' = [n \in DOMAIN blocks \cup Range(results) |->
                    IF n \in DOMAIN blocks THEN blocks[n]
                    ELSE Snapshot(n, kind[n])]
  /\ stack' = SetTop([Top EXCEPT !.children = results, !.i = 1,
                                 !.total_changed = 0, !.at = "loop"])
  /\ fpc' = "idle"
  /\ UNCHANGED <<fblock, start_cursor, results, reqlog, pc, ret, raised,
                 fetched, updates, visited, pages, segVars, updVars>>

\* the fetch raised: no frame catches it (lines 208, 218, 233 are outside
\* the try), so walk_and_fix and main end with the exception
AtFetchRaised == pc = "run" /\ stack # <<>> /\ Top.at = "fetch" /\ fpc = "raised"

WalkFetchRaised ==
  /\ AtFetchRaised
  /\ stack' = <<>> /\ pc' = "aborted" /\ raised' = "fetch"
  /\ fpc' = "idle"
  /\ UNCHANGED <<fblock, start_cursor, results, reqlog, blocks, ret,
                 fetched, updates, visited, pages, segVars, updVars>>

\* line 211: the for loop has a next child b, or is exhausted
AtChild ==
  pc = "run" /\ stack # <<>> /\ Top.at = "loop" /\ Top.i <= Len(Top.children)
AtLoopEnd ==
  pc = "run" /\ stack # <<>> /\ Top.at = "loop" /\ Top.i > Len(Top.children)

\* VisitSkip without the descent of line 218
VisitSkip_no_descent ==
  /\ AtChild
  /\ LET b == blocks[Top.children[Top.i]] IN
       /\ b.type \in SKIP_BLOCK_TYPES
       /\ visited' = Append(visited, b.id)
       /\ stack' = SetTop([Top EXCEPT !.i = @ + 1])
  /\ UNCHANGED <<blocks, pc, ret, raised, fetched, updates, pages, fetchVars,
                 segVars, updVars>>

\* lines 211-219: a child of a skip type
VisitSkip ==
  /\ AtChild
  /\ LET b == blocks[Top.children[Top.i]] IN
       /\ b.type \in SKIP_BLOCK_TYPES
       /\ visited' = Append(visited, b.id)
       /\ stack' = IF b.has_children
                   THEN Push([Top EXCEPT !.at = "218"], Frame(b.id))
                   ELSE SetTop([Top EXCEPT !.i = @ + 1])
  /\ UNCHANGED <<blocks, pc, ret, raised, fetched, updates, pages, fetchVars,
                 segVars, updVars>>

\* what "if block_has_math_dollars(b): if rewrite_block_inline_math(b):" can
\* do, over every pair of answers the server may give to the PATCH requests
NotRewritten == [changed |-> FALSE, call |-> NoCall, raised |-> None]

TryOutcomes(b) ==
  IF block_has_math_dollars(b)
  THEN {rewrite_block_inline_math(b, r1, r2) :
          r1 \in Responses, r2 \in Responses}
  ELSE {NotRewritten}

\* lines 211-236: a child of any other type: the try block, then the descent
VisitTry ==
  /\ AtChild
  /\ LET b == blocks[Top.children[Top.i]] IN
       /\ b.type \notin SKIP_BLOCK_TYPES
       /\ \E rw \in TryOutcomes(b) :
            LET gain == IF rw.raised = None /\ rw.changed THEN 1 ELSE 0
                escapes == rw.raised \notin {None, "HTTPError"}
            IN /\ visited' = Append(visited, b.id)
               /\ updates' = IF rw.call # NoCall
                             THEN Append(updates,
                                    [id |-> rw.call.requests[1].id,
                                     type |-> rw.call.requests[1].type,
                                     rich_text |-> rw.call.requests[1].rich_text,
                                     result |-> rw.call.result])
                             ELSE updates
               /\ pc' = IF escapes THEN "aborted" ELSE pc
               /\ raised' = IF escapes THEN rw.raised ELSE raised
               /\ stack' = IF escapes THEN <<>>
                           ELSE IF b.has_children
                           THEN Push([Top EXCEPT !.total_changed = @ + gain,
                                                 !.at = "233"], Frame(b.id))
                           ELSE SetTop([Top EXCEPT !.total_changed = @ + gain,
                                                   !.i = @ + 1])
  /\ UNCHANGED <<blocks, ret, fetched, pages, fetchVars, segVars, updVars>>

\* WalkReturn with the caller dropping the value returned at line 218
WalkReturn_skip_count_dropped ==
  /\ AtLoopEnd
  /\ IF Len(stack) = 1
     THEN /\ stack' = <<>> /\ ret' = <<Top.total_changed>> /\ pc' = "done"
     ELSE LET caller == stack[Len(stack) - 1] IN
          /\ stack' = [SubSeq(stack, 1, Len(stack) - 1) EXCEPT
                         ![Len(stack) - 1] =
                           [caller EXCEPT
                              !.total_changed =
                                 IF caller.at = "218" THEN @
                                 ELSE @ + Top.total_changed,
                              !.i = @ + 1, !.at = "loop"]]
          /\ UNCHANGED <<ret, pc>>
  /\ UNCHANGED <<blocks, raised, fetched, updates, visited, pages, fetchVars,
                 segVars, updVars>>

\* line 238: return total_changed, to line 218 or 233 of the caller
\* (total_changed += ..., then the next child) or to main
WalkReturn ==
  /\ AtLoopEnd
  /\ IF Len(stack) = 1
     THEN /\ stack' = <<>> /\ ret' = <<Top.total_changed>> /\ pc' = "done"
     ELSE LET caller == stack[Len(stack) - 1] IN
          /\ stack' = [SubSeq(stack, 1, Len(stack) - 1) EXCEPT
                         ![Len(stack) - 1] =
                           [caller EXCEPT
                              !.total_changed = @ + Top.total_changed,
                              !.i = @ + 1, !.at = "loop"]]
          /\ UNCHANGED <<ret, pc>>
  /\ UNCHANGED <<blocks, raised, fetched, updates, visited, pages, fetchVars,
                 segVars, updVars>>

Next ==
  \/ WalkCall
  \/ FetchPage
  \/ WalkFetched
  \/ WalkFetchRaised
  \/ VisitSkip
  \/ VisitTry
  \/ WalkReturn

Spec == Init /\ [][Next]_vars


\* ================================================= properties: segmenter
Matches == MATH_PATTERN_finditer(text)

\* the characters of text_ outside every matched region, in order
RECURSIVE Outside(_, _, _)
Outside(text_, ms, i) ==
  IF i > Len(text_) THEN <<>>
  ELSE (IF \E k \in 1..Len(ms) : ms[k].start < i /\ i <= ms[k].end
        THEN <<>> ELSE <<text_[i]>>)
       \o Outside(text_, ms, i + 1)

\* the text of the plain segments, concatenated
RECURSIVE PlainConcat(_)
PlainConcat(rt) ==
  IF rt = <<>> THEN <<>>
  ELSE (IF Head(rt).type = "text" THEN Head(rt).content ELSE <<>>)
       \o PlainConcat(Tail(rt))

\* the segments with the k-th math segment replaced by the k-th matched
\* region as it stands in text_
RECURSIVE Unsegment(_, _, _)
Unsegment(rt, ms, text_) ==
  IF rt = <<>> THEN <<>>
  ELSE IF Head(rt).type = "text"
  THEN Head(rt).content \o Unsegment(Tail(rt), ms, text_)
  ELSE IF ms = <<>> THEN <<"?">>
  ELSE Slice(text_, Head(ms).start, Head(ms).end)
       \o Unsegment(Tail(rt), Tail(ms), text_)

Equations(rt) == {k \in 1..Len(rt) : rt[k].type = "equation"}
Plains(rt) == {k \in 1..Len(rt) : rt[k].type = "text"}

\* C4: the plain segments, concatenated, are the input with every matched
\* $...$ region removed; the segments are in input order and cover the input
\* (putting each region back where its math segment stands gives the input);
\* when a region is matched no plain segment is empty.
C4_PlainTextPreserved ==
  spc = "done" =>
    /\ PlainConcat(rich) = Outside(text, Matches, 1)
    /\ Unsegment(rich, Matches, text) = text
    /\ Cardinality(Equations(rich)) = Len(Matches)
    /\ Matches # <<>> => \A k \in Plains(rich) : rich[k].content # <<>>

\* plain text before and after a matched region
C4_Witness ==
  /\ spc = "done"
  /\ Len(Matches) = 1
  /\ Len(rich) = 3
  /\ rich[1].type = "text" /\ rich[2].type = "equation" /\ rich[3].type = "text"

\* C8: no math segment has an expression containing a literal "$".
C8_NoDollarInExpression ==
  spc = "done" =>
    \A k \in Equations(rich) :
      \A j \in 1..Len(rich[k].expression) : rich[k].expression[j] # "$"

\* C10: every math segment carries a non-empty expression.
C10_NonEmptyExpression ==
  spc = "done" => \A k \in Equations(rich) : rich[k].expression # <<>>


\* ================================================ properties: the update
\* the delay the server specifies in Retry-After, 1 when it specifies none
ServerDelay(res) ==
  CASE res.retry_after = None -> 1
    [] res.retry_after = "1" -> 1
    [] res.retry_after = "2" -> 2
    [] OTHER -> 0

\* C3: one call sends one or two requests; a second one only after a 429 and
\* after exactly one sleep of the server-specified duration; 429 then success
\* is one successful update with one delay; a failure status on the retry
\* ends the call in the HTTP error the walker catches, with no third request.
C3_AtMostOneRetry ==
  upc = "done" =>
    /\ Len(upd.requests) \in {1, 2}
    /\ Len(upd.requests) = 2 =>
         /\ resp1.status = 429
         /\ upd.sleeps = <<ServerDelay(resp1)>>
         /\ upd.requests[2] = upd.requests[1]
    /\ Len(upd.requests) = 1 => upd.sleeps = <<>>
    /\ (resp1.status = 429 /\ ServerDelay(resp1) > 0) => Len(upd.requests) = 2
    /\ (resp1.status = 429 /\ ServerDelay(resp1) > 0 /\ resp2.status = 200) =>
         upd.result = "ok" /\ Len(upd.sleeps) = 1
    /\ (Len(upd.requests) = 2 /\ resp2.status # 200) => upd.result # "ok"
    /\ (Len(upd.requests) = 2 /\ resp2.status >= 400) =>
         upd.result = "HTTPError"
    /\ upd.result = "ok" =>
         (IF Len(upd.requests) = 2 THEN resp2 ELSE resp1).status = 200

\* a rate limit with Retry-After: 2, then success on the retry
C3_Witness ==
  /\ upc = "done"
  /\ resp1.status = 429 /\ resp1.retry_after = "2" /\ resp2.status = 200
  /\ upd.result = "ok" /\ upd.sleeps = <<2>> /\ Len(upd.requests) = 2

\* ================================================= properties: the fetch
\* the page request k of the running fetch was answered with
PageServed(k) == ServerPage(fblock, reqlog[k])

RECURSIVE ServedResults(_)
ServedResults(k) ==
  IF k = 0 THEN <<>> ELSE ServedResults(k - 1) \o PageServed(k).results

\* C6: every request after the first carries the cursor returned with the
\* previous page, no page is fetched twice, and the call returns, when a page
\* signals no further pages, the results of the pages in order.
C6_EachPageFetchedOnce ==
  /\ \A k \in 2..Len(reqlog) :
       reqlog[k] # NoCursor /\ reqlog[k] = PageServed(k - 1).next_cursor
  /\ \A j, k \in 1..Len(reqlog) : j # k => reqlog[j] # reqlog[k]
  /\ fpc = "returned" =>
       /\ ~PageServed(Len(reqlog)).has_more
       /\ results = ServedResults(Len(reqlog))


\* ================================================== properties: the walk
Textual(n) == blocks[n].type \in TEXTUAL_BLOCK_TYPES
Skipped(n) == blocks[n].type \in SKIP_BLOCK_TYPES
FlatMath(n) == HasMath(flatten(blocks[n].rich_text))
UpdatesOf(n) == {k \in 1..Len(updates) : updates[k].id = n}
Succeeded == {k \in 1..Len(updates) : updates[k].result = "ok"}
Failed == {k \in 1..Len(updates) : updates[k].result # "ok"}

\* C1: every visited node of a textual type whose flattened text contains a
\* $...$ region is given to the update operation, with the segments the
\* segmenter makes of the flattened text.
C1_FlattenedMathIsRewritten ==
  \A j \in 1..Len(visited) :
    LET n == visited[j] IN
    (Textual(n) /\ FlatMath(n)) =>
      \E k \in UpdatesOf(n) :
        updates[k].rich_text =
          build_rich_text_from_text_with_math(flatten(blocks[n].rich_text))

\* C2: whatever error the update of a node ends with, the walk goes on: it
\* never ends with an exception other than that of a failed children fetch.
C2_UpdateFailureIsolated ==
  \A k \in Failed : ~(pc = "aborted" /\ raised = updates[k].result)

\* C5: the value walk_and_fix(root) returns is the number of nodes whose
\* update succeeded, each counted once.
C5_ReturnCountsUpdated ==
  pc = "done" =>
    /\ ret = <<Cardinality(Succeeded)>>
    /\ ret = <<Cardinality({updates[k].id : k \in Succeeded})>>

\* a run that returns 1 with a successful update below a skip-type container
\* and a failed update elsewhere
C5_Witness ==
  /\ pc = "done" /\ ret = <<1>>
  /\ Failed # {}
  /\ \E k \in Succeeded : \E c \in 1..MaxNodes :
       /\ c \in DOMAIN blocks /\ Skipped(c)
       /\ \E q \in DOMAIN pages[c] :
            updates[k].id \in Range(pages[c][q].results)

\* C7: the update operation is called only for nodes of a textual type, and
\* at most once per node.
C7_OnlyTextualUpdated ==
  \A k \in 1..Len(updates) :
    /\ updates[k].type \in TEXTUAL_BLOCK_TYPES
    /\ updates[k].type \notin SKIP_BLOCK_TYPES
    /\ updates[k].type = blocks[updates[k].id].type
    /\ UpdatesOf(updates[k].id) = {k}

\* a finished run that visited a skip-type node and a node of neither set,
\* both with $...$ content, and updated another node
C7_Witness ==
  /\ pc = "done"
  /\ updates # <<>>
  /\ \E j \in 1..Len(visited) : Skipped(visited[j]) /\ FlatMath(visited[j])
  /\ \E j \in 1..Len(visited) :
       ~Skipped(visited[j]) /\ ~Textual(visited[j]) /\ FlatMath(visited[j])

\* C9: children are fetched once for the root and once for every descendant
\* flagged as having children, never for a node that is not flagged; a run
\* with no failed fetch goes on (it is never stuck and every step brings it
\* forward) until walk_and_fix returns or an update error escapes.
Flagged == {n \in DOMAIN blocks : blocks[n].has_children}

C9_FetchedAsFlagged ==
  /\ \A k \in 1..Len(fetched) : fetched[k] = 0 \/ fetched[k] \in Flagged
  /\ \A j, k \in 1..Len(fetched) : j # k => fetched[j] # fetched[k]
  /\ pc = "done" =>
       /\ DOMAIN blocks = 1..MaxNodes
       /\ Range(fetched) = {0} \cup Flagged

\* the walk is never stuck: while it runs, the guard of one of its steps holds
C9_CanStep ==
  AtCall \/ InFetchLoop \/ AtFetched \/ AtFetchRaised \/ AtChild \/ AtLoopEnd

\* a measure every step of the walk increases, so that no run goes on forever
C9_Progress ==
  (MaxRequests + 2) * Len(fetched) + Len(reqlog)
  + (IF fpc = "idle" THEN 1 ELSE 0)
  + 2 * Len(visited) - Len(stack)
  + (IF pc = "run" THEN 0 ELSE 1)

C9_FetchOncePerContainer ==
  /\ []C9_FetchedAsFlagged
  /\ [](pc = "run" => C9_CanStep)
  /\ [][C9_Progress' > C9_Progress]_vars

\* a finished run that fetched the children of a skip-type node, of a node
\* whose update failed and of a node whose update succeeded
C9_Witness ==
  /\ pc = "done"
  /\ \E n \in Range(fetched) \ {0} : Skipped(n)
  /\ \E k \in Failed : updates[k].id \in Range(fetched)

====
